---- MODULE Spec2Model ----
(***************************************************************************)
(* A model of the lexer package: New builds one combined regular           *)
(* expression from the lexeme patterns, Lex reads the input into an        *)
(* indexedBuffer and loops skipWhitespace / getNextToken.                  *)
(*                                                                         *)
(* Strings are sequences of one-character strings.  The regexp package is  *)
(* modelled for the subset of its syntax the combined expression and the   *)
(* pattern alphabet PatChars use: literals, ^, |, ( ) and (?P<name> ).     *)
(***************************************************************************)
EXTENDS Integers, Sequences, FiniteSets, TLC

\* Bounds of the model.
MaxPatterns == 2
MaxPatChars == 3
MaxInputLen == 2

\* The characters patterns are written in, and the bytes inputs are made of.
PatChars == {"a", "|", "(", ")", "\n"}
InputChars == {"a", "b", " ", "\n"}

VARIABLES newPc, lexemesArg, lexer, newErr, calls, tokA, tokB, lessPc, lessRes

vars == <<newPc, lexemesArg, lexer, newErr, calls, tokA, tokB, lessPc, lessRes>>

----------------------------------------------------------------------------
\* Small helpers on sequences and sets of integers.

Max(S) == CHOOSE x \in S : \A y \in S : y <= x
Min(S) == CHOOSE x \in S : \A y \in S : x <= y

StrsOfLen(chars, n) == [1..n -> chars]
StrsUpTo(chars, lo, hi) == UNION {StrsOfLen(chars, n) : n \in lo..hi}

----------------------------------------------------------------------------
\* fmt.Sprintf("%d") and strconv.ParseInt(_, 10, 32).

Digits == <<"0", "1", "2", "3", "4", "5", "6", "7", "8", "9">>

RECURSIVE Itoa(_)
Itoa(n) ==
    IF n < 10 THEN <<Digits[n + 1]>>
    ELSE Itoa(n \div 10) \o <<Digits[(n % 10) + 1]>>

DigitValue(c) == CHOOSE d \in 0..9 : Digits[d + 1] = c

IsDigit(c) == \E d \in 0..9 : Digits[d + 1] = c

RECURSIVE ParseDigits(_, _, _)
ParseDigits(s, i, acc) ==
    IF i > Len(s) THEN acc
    ELSE ParseDigits(s, i + 1, acc * 10 + DigitValue(s[i]))

\* ParseInt: a non-empty string of decimal digits gives its value, anything
\* else (the empty name of an unnamed group included) is an error.
ParseInt(s) ==
    IF Len(s) > 0 /\ \A i \in DOMAIN s : IsDigit(s[i])
    THEN [ok |-> TRUE, n |-> ParseDigits(s, 1, 0)]
    ELSE [ok |-> FALSE, n |-> 0]

----------------------------------------------------------------------------
\* regexp/syntax: the parser, as regexp.Compile runs it on the combined string.

Node(op, c, cap, name, sub) ==
    [op |-> op, c |-> c, cap |-> cap, name |-> name, sub |-> sub]

Lit(c) == Node("lit", c, 0, <<>>, <<>>)
BeginText == Node("bot", "", 0, <<>>, <<>>)
EmptyMatch == Node("empty", "", 0, <<>>, <<>>)
Capture(cap, name, re) == Node("cap", "", cap, name, <<re>>)

\* parser.concat / parser.alternate collapse a list of one to its element.
Collapse(subs, op) ==
    IF Len(subs) = 1 THEN subs[1] ELSE Node(op, "", 0, <<>>, subs)

ConcatOf(cur) == IF Len(cur) = 0 THEN EmptyMatch ELSE Collapse(cur, "cat")

\* One open parenthesis of the parser's stack (the bottom frame is the whole
\* expression): the alternatives closed by | so far and the pieces of the
\* current concatenation.
Frame(cap, name) == [cap |-> cap, name |-> name, alts |-> <<>>, cur |-> <<>>]

FrameRegexp(f) == Collapse(Append(f.alts, ConcatOf(f.cur)), "alt")

Push(stack, re) ==
    [stack EXCEPT ![Len(stack)].cur = Append(@, re)]

ParseFail(code) ==
    [ok |-> FALSE, re |-> EmptyMatch, numCap |-> 0, names |-> <<>>, err |-> code]

IsNameChar(c) == IsDigit(c) \/ c \in {"a", "b", "P", "_"}

\* Index of the first ">" of s at or after i, 0 when there is none.
RECURSIVE IndexOfGt(_, _)
IndexOfGt(s, i) ==
    IF i > Len(s) THEN 0
    ELSE IF s[i] = ">" THEN i
    ELSE IndexOfGt(s, i + 1)

RECURSIVE ParseLoop(_, _, _, _)
ParseLoop(s, i, stack, names) ==
    IF i > Len(s)
    THEN IF Len(stack) # 1
         THEN ParseFail("missing closing )")
         ELSE [ok |-> TRUE, re |-> FrameRegexp(stack[1]),
               numCap |-> Len(names), names |-> names, err |-> ""]
    ELSE
      LET c == s[i]
          top == stack[Len(stack)]
      IN
      CASE c = "(" ->
             IF i + 1 <= Len(s) /\ s[i + 1] = "?"
             THEN \* parsePerlFlags: only (?P<name> occurs here
                  LET gt == IndexOfGt(s, i + 4)
                      name == SubSeq(s, i + 4, gt - 1)
                  IN IF ~(i + 3 <= Len(s) /\ s[i + 2] = "P" /\ s[i + 3] = "<")
                     THEN ParseFail("invalid or unsupported Perl syntax")
                     ELSE IF gt = 0 \/ Len(name) = 0
                             \/ \E k \in DOMAIN name : ~IsNameChar(name[k])
                     THEN ParseFail("invalid named capture")
                     ELSE ParseLoop(s, gt + 1,
                                    Append(stack, Frame(Len(names) + 1, name)),
                                    Append(names, name))
             ELSE ParseLoop(s, i + 1,
                            Append(stack, Frame(Len(names) + 1, <<>>)),
                            Append(names, <<>>))
        [] c = "|" ->
             ParseLoop(s, i + 1,
                       [stack EXCEPT ![Len(stack)] =
                          [top EXCEPT !.alts = Append(@, ConcatOf(top.cur)),
                                      !.cur = <<>>]],
                       names)
        [] c = ")" ->
             IF Len(stack) < 2
             THEN ParseFail("unexpected )")
             ELSE ParseLoop(s, i + 1,
                            Push(SubSeq(stack, 1, Len(stack) - 1),
                                 Capture(top.cap, top.name, FrameRegexp(top))),
                            names)
        [] c = "^" -> ParseLoop(s, i + 1, Push(stack, BeginText), names)
        [] c = "?" -> ParseFail("missing argument to repetition operator")
        [] OTHER -> ParseLoop(s, i + 1, Push(stack, Lit(c)), names)

\* regexp.Compile(s).  numCap is NumSubexp(), names[i] is SubexpNames()[i].
Compile(s) == ParseLoop(s, 1, <<Frame(0, <<>>)>>, <<>>)

----------------------------------------------------------------------------
\* regexp: matching.  A thread is a way the expression matched from the start
\* offset: the offset it ended at and the capture positions it recorded.
\* Offsets are Go's (0-based); text[k + 1] is the byte at offset k.

NoCap == <<-1, -1>>

Thread(pos, cap) == [pos |-> pos, cap |-> cap]

RECURSIVE Match(_, _, _, _)
RECURSIVE MatchEach(_, _, _, _)
RECURSIVE MatchCat(_, _, _, _)
RECURSIVE MatchAlt(_, _, _, _, _)

\* The threads of re on text from offset pos, highest priority first.
Match(re, text, pos, cap) ==
    CASE re.op = "lit" ->
           IF pos < Len(text) /\ text[pos + 1] = re.c
           THEN <<Thread(pos + 1, cap)>>
           ELSE <<>>
      [] re.op = "bot" -> IF pos = 0 THEN <<Thread(pos, cap)>> ELSE <<>>
      [] re.op = "empty" -> <<Thread(pos, cap)>>
      [] re.op = "cat" -> MatchCat(re.sub, 1, text, <<Thread(pos, cap)>>)
      [] re.op = "alt" -> MatchAlt(re.sub, 1, text, pos, cap)
      [] re.op = "cap" ->
           LET inner == Match(re.sub[1], text, pos, cap)
           IN [k \in DOMAIN inner |->
                 Thread(inner[k].pos,
                        [inner[k].cap EXCEPT ![re.cap] = <<pos, inner[k].pos>>])]

\* re continued from each of the threads, in their order.
MatchEach(re, text, threads, k) ==
    IF k > Len(threads) THEN <<>>
    ELSE Match(re, text, threads[k].pos, threads[k].cap)
           \o MatchEach(re, text, threads, k + 1)

MatchCat(subs, j, text, threads) ==
    IF j > Len(subs) THEN threads
    ELSE MatchCat(subs, j + 1, text, MatchEach(subs[j], text, threads, 1))

\* An alternation tries its branches in order: the earlier branch has priority.
MatchAlt(subs, j, text, pos, cap) ==
    IF j > Len(subs) THEN <<>>
    ELSE Match(subs[j], text, pos, cap) \o MatchAlt(subs, j + 1, text, pos, cap)

\* (mutant) Longest() is not called: leftmost-first matching.
LeftmostFirst == FALSE

\* compiledRegex.Longest(): prefer the leftmost-longest match.
Longest == TRUE

\* The thread the match reports: with Longest the first of those that end
\* furthest, without it the first.
Best(threads) ==
    IF Longest
    THEN LET far == Max({threads[k].pos : k \in DOMAIN threads})
         IN threads[Min({k \in DOMAIN threads : threads[k].pos = far})]
    ELSE threads[1]

RECURSIVE Flatten(_, _)
Flatten(cap, k) ==
    IF k > Len(cap) THEN <<>> ELSE cap[k] \o Flatten(cap, k + 1)

\* regexps.FindAllSubmatchIndex(text, 1): the leftmost match, as the index
\* pairs of the whole match and of each subexpression; none when no offset
\* of text starts a match.
RECURSIVE FindFrom(_, _, _)
FindFrom(re, text, start) ==
    IF start > Len(text) THEN [found |-> FALSE, matches |-> <<>>]
    ELSE LET threads == Match(re.re, text, start,
                              [k \in 1..re.numCap |-> NoCap])
         IN IF threads # <<>>
            THEN LET t == Best(threads)
                 IN [found |-> TRUE,
                     matches |-> <<start, t.pos>> \o Flatten(t.cap, 1)]
            ELSE FindFrom(re, text, start + 1)

FindAllSubmatchIndex(re, text) == FindFrom(re, text, 0)

----------------------------------------------------------------------------
\* Errors (the Error interface and its three implementations).

NoError == [kind |-> "nil", Index |-> -1]
newRegexError == [kind |-> "RegexError", Index |-> -1]
newInputError == [kind |-> "InputError", Index |-> -1]
newMatchError(index) == [kind |-> "MatchError", Index |-> index]

----------------------------------------------------------------------------
\* New.

\* fmt.Sprintf("(?P<%d>^%s)", i, lexeme)
Sprintf(i, lexeme) ==
    <<"(", "?", "P", "<">> \o Itoa(i) \o <<">", "^">> \o lexeme \o <<")">>

\* The loop of New over the lexemes (i is the 0-based index of the next one).
RECURSIVE RegexpStringFrom(_, _, _)
RegexpStringFrom(lexemes, i, regexpString) ==
    IF i >= Len(lexemes) THEN regexpString
    ELSE RegexpStringFrom(lexemes, i + 1,
                          regexpString
                            \o (IF i # 0 THEN <<"|">> ELSE <<>>)
                            \o Sprintf(i, lexemes[i + 1]))

\* (mutant) Each group is put in front of the expression built so far.
RECURSIVE RegexpStringPrepended(_, _, _)
RegexpStringPrepended(lexemes, i, regexpString) ==
    IF i >= Len(lexemes) THEN regexpString
    ELSE RegexpStringPrepended(lexemes, i + 1,
                               Sprintf(i, lexemes[i + 1])
                                 \o (IF i # 0 THEN <<"|">> ELSE <<>>)
                                 \o regexpString)

RegexpStringReversed(lexemes) == RegexpStringPrepended(lexemes, 0, <<>>)

RegexpString(lexemes) == RegexpStringFrom(lexemes, 0, <<>>)

\* (mutant) The lexemes are not looked at: the newline is always whitespace.
SkipNewlineAlways(lexemes) == TRUE

SkipNewline(lexemes) == ~\E i \in DOMAIN lexemes : lexemes[i] = <<"\n">>

NilLexer ==
    [isNil |-> TRUE, lexemes |-> <<>>, regexps |-> ParseFail(""),
     skipNewline |-> TRUE]

\* What New(lexemes) returns: the Lexer (or nil) and the Error.
NewResult(lexemes) ==
    LET compiled == Compile(RegexpString(lexemes))
    IN IF ~compiled.ok
       THEN [lexer |-> NilLexer, err |-> newRegexError]
       ELSE [lexer |-> [isNil |-> FALSE, lexemes |-> lexemes,
                        regexps |-> compiled,
                        skipNewline |-> SkipNewline(lexemes)],
             err |-> NoError]

----------------------------------------------------------------------------
\* indexedBuffer.

IndexedBuffer(bytes, index) == [buffer |-> bytes, index |-> index]

endOfInput(b) == b.index >= Len(b.buffer)

\* (mutant) b.index -= n
advanceBackwards(b, n) == [b EXCEPT !.index = @ - n]

advance(b, n) == [b EXCEPT !.index = @ + n]

next(b) == SubSeq(b.buffer, b.index + 1, Len(b.buffer))

current(b) == b.buffer[b.index + 1]

substring(b, n) == SubSeq(b.buffer, b.index + 1, b.index + n)

\* unicode.IsSpace on a byte: '\t', '\n', '\v', '\f', '\r', ' ', 0x85, 0xA0.
IsSpace(r) == r \in {"\t", "\n", "\f", "\r", " "}

\* (mutant) Nothing is skipped.
skipWhitespaceNothing(b, skipNewline) == b

RECURSIVE skipWhitespace(_, _)
skipWhitespace(b, skipNewline) ==
    IF endOfInput(b) THEN b
    ELSE LET r == b.buffer[b.index + 1]
         IN IF (~skipNewline /\ r = "\n") \/ ~IsSpace(r)
            THEN b
            ELSE skipWhitespace([b EXCEPT !.index = @ + 1], skipNewline)

----------------------------------------------------------------------------
\* Token and Lexer.getNextToken.

Token(id, value, index) == [ID |-> id, Value |-> value, Index |-> index]

\* (mutant) The token takes the index of the buffer after the advance.
MatchedTokenAfterAdvance(dn, b, n) == Token(dn, substring(b, n), b.index + n)

\* The byte values of the characters, for Go's comparison of strings.
Byte(ch) ==
    CASE ch = "\t" -> 9
      [] ch = "\n" -> 10
      [] ch = "\f" -> 12
      [] ch = "\r" -> 13
      [] ch = " " -> 32
      [] ch = "(" -> 40
      [] ch = ")" -> 41
      [] ch = "a" -> 97
      [] ch = "b" -> 98
      [] ch = "|" -> 124

\* s < t on Go strings: bytewise, a proper prefix first.
RECURSIVE StringLess(_, _)
StringLess(s, t) ==
    IF t = <<>> THEN FALSE
    ELSE IF s = <<>> THEN TRUE
    ELSE IF Byte(s[1]) # Byte(t[1]) THEN Byte(s[1]) < Byte(t[1])
    ELSE StringLess(Tail(s), Tail(t))

\* t.Less(other)
TokenLess(t, other) ==
    IF StringLess(t.Value, other.Value) THEN TRUE
    ELSE IF t.ID < other.ID THEN TRUE
    ELSE t.Index < other.Index

\* TokenList t.Less(i, j), i and j 0-based.
TokenListLess(t, i, j) ==
    IF StringLess(t[i + 1].Value, t[j + 1].Value) THEN TRUE
    ELSE t[i + 1].ID < t[j + 1].ID

\* The token getNextToken builds for a match of n bytes by pattern dn.
MatchedToken(dn, b, n) == Token(dn, substring(b, n), b.index)

\* The loop over the subexpressions (i is 0-based): the first one that took
\* part in the match and whose name is a number decides the token; when the
\* loop runs out getNextToken panics.
RECURSIVE SubexpLoop(_, _, _, _)
SubexpLoop(regexps, matches, b, i) ==
    IF i >= regexps.numCap
    THEN [kind |-> "panic", token |-> Token(-1, <<>>, b.index),
          err |-> NoError, b |-> b]
    ELSE LET beg == matches[2 * (i + 1) + 1]
             end == matches[2 * (i + 1) + 2]
             dn == ParseInt(regexps.names[i + 1])
         IN IF beg = -1 \/ ~dn.ok
            THEN SubexpLoop(regexps, matches, b, i + 1)
            ELSE [kind |-> "token", token |-> MatchedToken(dn.n, b, end - beg),
                  err |-> NoError, b |-> advance(b, end - beg)]

\* l.getNextToken(&b): the token or the error, and the buffer afterwards.
getNextToken(l, b) ==
    LET result == FindAllSubmatchIndex(l.regexps, next(b))
    IN IF ~result.found
       THEN [kind |-> "error", token |-> Token(-1, <<current(b)>>, b.index),
             err |-> newMatchError(b.index), b |-> b]
       ELSE SubexpLoop(l.regexps, result.matches, b, 0)

----------------------------------------------------------------------------
\* Lexer.Lex: what it returns.

\* (mutant) return list, err: the tokens matched before the error.
ReturnPartialList(list, err) == [isNil |-> FALSE, list |-> list, err |-> err]

\* return nil, err
ReturnError(list, err) == [isNil |-> TRUE, list |-> <<>>, err |-> err]

\* return list, nil
ReturnList(list) == [isNil |-> FALSE, list |-> list, err |-> NoError]

NoReturn == [isNil |-> TRUE, list |-> <<>>, err |-> NoError]

\* The loop of Lex run to its end from buffer b with the tokens of list
\* appended so far: what Lex returns, or that it panics, or that it loops (a
\* token that does not advance the buffer leaves the next iteration where
\* this one was).
RECURSIVE LexLoop(_, _, _)
LexLoop(l, b, list) ==
    LET skipped == skipWhitespace(b, l.skipNewline)
    IN IF endOfInput(skipped)
       THEN [kind |-> "returned", ret |-> ReturnList(list)]
       ELSE LET r == getNextToken(l, skipped)
            IN CASE r.kind = "error" ->
                      [kind |-> "returned", ret |-> ReturnError(list, r.err)]
                 [] r.kind = "token" ->
                      IF r.b.index = skipped.index
                      THEN [kind |-> "loops", ret |-> NoReturn]
                      ELSE LexLoop(l, r.b, Append(list, r.token))
                 [] OTHER -> [kind |-> "panicked", ret |-> NoReturn]

\* l.Lex(input) for an input that is read without error.
LexOf(l, bytes) == LexLoop(l, IndexedBuffer(bytes, 0), <<>>)

----------------------------------------------------------------------------
\* The inputs of the model.

\* The lists of k patterns, each of at least one character, of at most
\* budget characters together.
RECURSIVE ListsOf(_, _)
ListsOf(k, budget) ==
    IF k = 0 THEN {<<>>}
    ELSE UNION {{<<p>> \o rest : rest \in ListsOf(k - 1, budget - Len(p))} :
                  p \in StrsUpTo(PatChars, 1, budget - (k - 1))}

PatternLists == UNION {ListsOf(k, MaxPatChars) : k \in 1..MaxPatterns}

Inputs == StrsUpTo(InputChars, 0, MaxInputLen)

\* A call that keeps matching the empty string appends tokens for ever; the
\* model follows it for one token more than an input can hold.
MaxTokens == MaxInputLen + 1

\* The Lex calls: "c1" is the one Spec runs.
Calls == {"c1", "c2"}

IdleCall ==
    [pc |-> "idle", b |-> IndexedBuffer(<<>>, 0), list |-> <<>>,
     ret |-> NoReturn]

NoToken == Token(0, <<>>, 0)

NoLess == [tLess |-> FALSE, tLessRev |-> FALSE, lLess |-> FALSE]

----------------------------------------------------------------------------
\* The state machine.

TokenIdle ==
    /\ tokA = NoToken
    /\ tokB = NoToken
    /\ lessPc = "off"
    /\ lessRes = NoLess

Init ==
    /\ newPc = "start"
    /\ lexemesArg = <<>>
    /\ lexer = NilLexer
    /\ newErr = NoError
    /\ calls = [c \in Calls |-> IdleCall]
    /\ TokenIdle

\* New(lexemes)
New ==
    /\ newPc = "start"
    /\ \E lexemes \in PatternLists :
         LET r == NewResult(lexemes)
         IN /\ lexemesArg' = lexemes
            /\ lexer' = r.lexer
            /\ newErr' = r.err
    /\ newPc' = "returned"
    /\ UNCHANGED <<calls, tokA, tokB, lessPc, lessRes>>

\* (mutant) The cursor is one variable of the package: a call that starts
\* sets the cursor of every call to 0.
LexReadGlobalCursor(c) ==
    /\ newPc = "returned"
    /\ ~lexer.isNil
    /\ calls[c].pc = "idle"
    /\ \E bytes \in Inputs :
         calls' = [d \in Calls |->
                     IF d = c
                     THEN [pc |-> "skip", b |-> IndexedBuffer(bytes, 0),
                           list |-> <<>>, ret |-> NoReturn]
                     ELSE [calls[d] EXCEPT !.b.index = 0]]
    /\ UNCHANGED <<newPc, lexemesArg, lexer, newErr, tokA, tokB, lessPc, lessRes>>

\* l.Lex(input), up to the loop: ioutil.ReadAll gives the bytes of the input.
LexRead(c) ==
    /\ newPc = "returned"
    /\ ~lexer.isNil
    /\ calls[c].pc = "idle"
    /\ \E bytes \in Inputs :
         calls' = [calls EXCEPT ![c] =
                     [pc |-> "skip", b |-> IndexedBuffer(bytes, 0),
                      list |-> <<>>, ret |-> NoReturn]]
    /\ UNCHANGED <<newPc, lexemesArg, lexer, newErr, tokA, tokB, lessPc, lessRes>>

\* l.Lex(input) when ioutil.ReadAll fails.
LexReadFails(c) ==
    /\ newPc = "returned"
    /\ ~lexer.isNil
    /\ calls[c].pc = "idle"
    /\ calls' = [calls EXCEPT ![c] =
                   [@ EXCEPT !.pc = "returned",
                             !.ret = ReturnError(<<>>, newInputError)]]
    /\ UNCHANGED <<newPc, lexemesArg, lexer, newErr, tokA, tokB, lessPc, lessRes>>

\* The head of the loop: skipWhitespace, then break at the end of the input.
LexSkip(c) ==
    /\ calls[c].pc = "skip"
    /\ LET b == skipWhitespace(calls[c].b, lexer.skipNewline)
       IN calls' = [calls EXCEPT ![c] =
                      IF endOfInput(b)
                      THEN [@ EXCEPT !.pc = "returned", !.b = b,
                                     !.ret = ReturnList(calls[c].list)]
                      ELSE [@ EXCEPT !.pc = "match", !.b = b]]
    /\ UNCHANGED <<newPc, lexemesArg, lexer, newErr, tokA, tokB, lessPc, lessRes>>

\* The rest of the loop: getNextToken, then return its error or append its
\* token.  A panic of getNextToken ends the call without a return.
LexMatch(c) ==
    /\ calls[c].pc = "match"
    /\ Len(calls[c].list) < MaxTokens
    /\ LET r == getNextToken(lexer, calls[c].b)
       IN calls' = [calls EXCEPT ![c] =
                      CASE r.kind = "error" ->
                             [@ EXCEPT !.pc = "returned",
                                       !.ret = ReturnError(calls[c].list, r.err)]
                        [] r.kind = "token" ->
                             [@ EXCEPT !.pc = "skip", !.b = r.b,
                                       !.list = Append(@, r.token)]
                        [] OTHER -> [@ EXCEPT !.pc = "panicked"]]
    /\ UNCHANGED <<newPc, lexemesArg, lexer, newErr, tokA, tokB, lessPc, lessRes>>

Lex(c) == LexRead(c) \/ LexReadFails(c) \/ LexSkip(c) \/ LexMatch(c)

Next == New \/ Lex("c1")

Spec == Init /\ [][Next]_vars

\* Two Lex calls on the one Lexer, their steps interleaved in any order.  The
\* Lexer is built before the calls start; its list has one pattern of one
\* character: "a" (tokens and match errors), "|" (an empty match, the call
\* loops) or "\n" (skipNewline is false).
OneCharLists ==
    {lexemes \in PatternLists : Len(lexemes) = 1 /\ Len(lexemes[1]) = 1}

InitConcurrent ==
    /\ newPc = "returned"
    /\ lexemesArg \in OneCharLists
    /\ lexer = NewResult(lexemesArg).lexer
    /\ newErr = NewResult(lexemesArg).err
    /\ newErr = NoError
    /\ calls = [c \in Calls |-> IdleCall]
    /\ TokenIdle

NextConcurrent == Lex("c1") \/ Lex("c2")

SpecConcurrent == InitConcurrent /\ [][NextConcurrent]_vars

\* Lex on a Lexer of one pattern that has groups of its own: a pattern of "a",
\* "|", "(" and ")", one character longer than the patterns of PatternLists.
\* The Lexer is built before the call starts.
GroupChars == {"a", "|", "(", ")"}

GroupLists == {<<p>> : p \in StrsUpTo(GroupChars, 1, MaxPatChars + 1)}

InitGroups ==
    /\ newPc = "returned"
    /\ lexemesArg \in GroupLists
    /\ lexer = NewResult(lexemesArg).lexer
    /\ newErr = NewResult(lexemesArg).err
    /\ calls = [c \in Calls |-> IdleCall]
    /\ TokenIdle

NextGroups == Lex("c1")

SpecGroups == InitGroups /\ [][NextGroups]_vars

----------------------------------------------------------------------------
\* The orderings of tokens, applied to two tokens.

TokenValues == StrsUpTo({"a", "b"}, 0, MaxInputLen)

Tokens ==
    {Token(id, value, index) :
       id \in 0..(MaxPatterns - 1), value \in TokenValues,
       index \in 0..(MaxInputLen - 1)}

InitTokens ==
    /\ newPc = "start"
    /\ lexemesArg = <<>>
    /\ lexer = NilLexer
    /\ newErr = NoError
    /\ calls = [c \in Calls |-> IdleCall]
    /\ tokA \in Tokens
    /\ tokB \in Tokens
    /\ lessPc = "call"
    /\ lessRes = NoLess

\* tokA.Less(tokB), tokB.Less(tokA) and TokenList{tokA, tokB}.Less(0, 1)
Compare ==
    /\ lessPc = "call"
    /\ lessRes' = [tLess |-> TokenLess(tokA, tokB),
                   tLessRev |-> TokenLess(tokB, tokA),
                   lLess |-> TokenListLess(<<tokA, tokB>>, 0, 1)]
    /\ lessPc' = "done"
    /\ UNCHANGED <<newPc, lexemesArg, lexer, newErr, calls, tokA, tokB>>

NextTokens == Compare

SpecTokens == InitTokens /\ [][NextTokens]_vars

----------------------------------------------------------------------------
\* What the claims speak of: a pattern taken by itself, matched at the cursor.

\* The entry is a well-formed regular expression by itself.
WellFormed(lexeme) == Compile(lexeme).ok

AllWellFormed(lexemes) == \A i \in DOMAIN lexemes : WellFormed(lexemes[i])

\* The lengths of the prefixes of text that the pattern, by itself, matches.
MatchLens(lexeme, text) ==
    LET re == Compile(lexeme)
        threads == Match(re.re, text, 0, [k \in 1..re.numCap |-> NoCap])
    IN {threads[k].pos : k \in DOMAIN threads}

\* The input from offset p on.
InputFrom(c, p) == SubSeq(calls[c].b.buffer, p + 1, Len(calls[c].b.buffer))

\* The (0-based) indices of the patterns that match at offset p of the input
\* of call c with length n.
PatternsMatching(c, p, n) ==
    {i \in 0..(Len(lexer.lexemes) - 1) :
       n \in MatchLens(lexer.lexemes[i + 1], InputFrom(c, p))}

\* The lengths with which some pattern matches at offset p.
LensAt(c, p) ==
    UNION {MatchLens(lexer.lexemes[i], InputFrom(c, p)) : i \in DOMAIN lexer.lexemes}

\* Call c has just appended a token: LastToken(c), matched at LastToken(c).Index.
JustEmitted(c) ==
    /\ ~lexer.isNil
    /\ calls[c].pc = "skip"
    /\ calls[c].list # <<>>

LastToken(c) == calls[c].list[Len(calls[c].list)]

\* Call c is about to call getNextToken: whitespace is skipped, the cursor is
\* not at the end of the input.
AtCursor(c) == ~lexer.isNil /\ calls[c].pc = "match"

Returned(c) == calls[c].pc = "returned"

----------------------------------------------------------------------------
\* C1. Tie-break by declaration order: wherever a token is emitted, if two
\* or more patterns (each a regular expression by itself) match at its
\* offset with the longest length any pattern reaches there, the token's ID
\* is the smallest index among them.
C1_TieBreakByDeclarationOrder ==
    \A c \in Calls :
      (JustEmitted(c) /\ AllWellFormed(lexer.lexemes)) =>
        LET t == LastToken(c)
            lens == LensAt(c, t.Index)
        IN lens # {} =>
             LET tied == PatternsMatching(c, t.Index, Max(lens))
             IN Cardinality(tied) >= 2 => t.ID = Min(tied)

\* A token, not the first of its input, was emitted where two patterns tie
\* at the longest length, which is not zero.
C1_Witness ==
    \E c \in Calls :
      /\ JustEmitted(c) /\ AllWellFormed(lexer.lexemes)
      /\ LET t == LastToken(c)
             lens == LensAt(c, t.Index)
         IN /\ lens # {}
            /\ Max(lens) >= 1
            /\ Cardinality(PatternsMatching(c, t.Index, Max(lens))) >= 2
            /\ t.Index > 0

\* C2. Longest match over order: wherever a token is emitted, if one pattern
\* matches at its offset strictly longer than every other pattern, the token
\* has that pattern's index as ID and a Value of that length.
C2_LongestMatchOverOrder ==
    \A c \in Calls :
      (JustEmitted(c) /\ AllWellFormed(lexer.lexemes)) =>
        LET t == LastToken(c)
            lens == LensAt(c, t.Index)
        IN lens # {} =>
             LET longest == PatternsMatching(c, t.Index, Max(lens))
             IN Cardinality(longest) = 1 =>
                  /\ t.ID = Min(longest)
                  /\ Len(t.Value) = Max(lens)

\* A token was emitted for a pattern that is not the first of the list and
\* matched strictly longer than the first pattern, which matched there too.
C2_Witness ==
    \E c \in Calls :
      /\ JustEmitted(c) /\ AllWellFormed(lexer.lexemes)
      /\ LET t == LastToken(c)
             lens == LensAt(c, t.Index)
         IN /\ lens # {}
            /\ PatternsMatching(c, t.Index, Max(lens)) = {t.ID}
            /\ t.ID > 0
            /\ \E n \in lens : n < Max(lens) /\ 0 \in PatternsMatching(c, t.Index, n)

\* C3. Unmatched input reporting: when the cursor, whitespace skipped, is at
\* an offset p where no pattern of the list matches, getNextToken emits no
\* token there: it fails with a MatchError whose Index is p.
C3_UnmatchedInputReported ==
    \A c \in Calls :
      (AtCursor(c) /\ AllWellFormed(lexer.lexemes)
         /\ LensAt(c, calls[c].b.index) = {}) =>
        LET r == getNextToken(lexer, calls[c].b)
        IN /\ r.kind = "error"
           /\ r.err = newMatchError(calls[c].b.index)

\* C4. Anchoring: for patterns that are regular expressions by themselves
\* (top-level alternation included), a match the combined expression reports
\* against the remaining input starts at offset 0 of it, and the token's
\* Value is the text that match covers.
C4_MatchStartsAtCursor ==
    \A c \in Calls :
      (AtCursor(c) /\ AllWellFormed(lexer.lexemes)) =>
        LET result == FindAllSubmatchIndex(lexer.regexps, next(calls[c].b))
            r == getNextToken(lexer, calls[c].b)
        IN result.found =>
             /\ result.matches[1] = 0
             /\ r.kind = "token" =>
                  r.token.Value = SubSeq(next(calls[c].b),
                                         result.matches[1] + 1,
                                         result.matches[2])

\* C7. All-or-nothing result: a Lex that returns an error returns a nil
\* list, whether the error is an InputError or a MatchError after any number
\* of tokens; a Lex that returns a list returns no error, and no token of the
\* list has ID -1.
C7_AllOrNothing ==
    \A c \in Calls :
      Returned(c) =>
        LET ret == calls[c].ret
        IN /\ ret.err # NoError =>
                /\ ret.isNil
                /\ ret.err.kind \in {"InputError", "MatchError"}
           /\ ~ret.isNil =>
                /\ ret.err = NoError
                /\ ret.list = calls[c].list
                /\ \A k \in DOMAIN ret.list : ret.list[k].ID # -1
           /\ ret.isNil => ret.err # NoError

\* Lex returned a MatchError after it had matched tokens.
C7_Witness ==
    \E c \in Calls :
      /\ Returned(c)
      /\ calls[c].ret.err.kind = "MatchError"
      /\ calls[c].list # <<>>

\* C8. Compilation failure: when an entry of the list is not a well-formed
\* regular expression by itself, New returns a nil Lexer and a RegexError;
\* the Lexer is non-nil exactly when the error is nil.
C8_MalformedEntryRejected ==
    newPc = "returned" =>
      /\ ~AllWellFormed(lexemesArg) =>
           (lexer.isNil /\ newErr.kind = "RegexError")
      /\ lexer.isNil <=> newErr # NoError

\* C9. Round trip of offsets: every token of a list Lex returns without error
\* lies inside the input, and the bytes of the input at
\* [Index, Index + len(Value)) are its Value.
C9_OffsetsRoundTrip ==
    \A c \in Calls :
      (Returned(c) /\ calls[c].ret.err = NoError) =>
        \A k \in DOMAIN calls[c].ret.list :
          LET t == calls[c].ret.list[k]
              input == calls[c].b.buffer
          IN /\ t.Index >= 0
             /\ t.Index + Len(t.Value) <= Len(input)
             /\ t.Value = [j \in 1..Len(t.Value) |-> input[t.Index + j]]

\* Lex returned a list with a token that is not empty and does not start the
\* input.
C9_Witness ==
    \E c \in Calls :
      /\ Returned(c) /\ calls[c].ret.err = NoError
      /\ \E k \in DOMAIN calls[c].ret.list :
           /\ calls[c].ret.list[k].Index > 0
           /\ calls[c].ret.list[k].Value # <<>>

----------------------------------------------------------------------------
\* Whitespace, as the claims speak of it.

HasNewlineEntry == \E i \in DOMAIN lexer.lexemes : lexer.lexemes[i] = <<"\n">>

\* The whitespace characters of the inputs that count as whitespace for the
\* lexer: the newline does not when "\n" is a declared pattern.
Whitespace == IF HasNewlineEntry THEN {" "} ELSE {" ", "\n"}

RECURSIVE Strip(_)
\* The input without the whitespace it starts with.
Strip(bytes) ==
    IF bytes # <<>> /\ bytes[1] \in Whitespace THEN Strip(Tail(bytes)) ELSE bytes

\* The (ID, Value) pairs of a token list.
IDValues(list) == [k \in DOMAIN list |-> <<list[k].ID, list[k].Value>>]

\* The token list with every Index moved by n.
Shifted(list, n) == [k \in DOMAIN list |-> [list[k] EXCEPT !.Index = @ + n]]

\* The input of call c with w between its offsets p and q in place of what
\* is there.
Respaced(c, p, q, w) ==
    SubSeq(calls[c].b.buffer, 1, p) \o w \o InputFrom(c, q)

\* The gaps between the tokens of the returned list: <<end of one token,
\* start of the next>>.
Gaps(c) ==
    LET list == calls[c].ret.list
    IN {<<list[k].Index + Len(list[k].Value), list[k + 1].Index>> :
          k \in 1..(Len(list) - 1)}

\* C5 as claimed. Whitespace idempotence: when Lex has returned a list, the
\* input with the gap between two of its tokens filled by another run of
\* whitespace, or by none, gives a list with the same (ID, Value) pairs.
C5_WhitespaceBetweenTokens ==
    \A c \in Calls :
      (Returned(c) /\ ~calls[c].ret.isNil) =>
        \A g \in Gaps(c) :
          \A w \in StrsUpTo(Whitespace, 0, 1) :
            LET other == LexOf(lexer, Respaced(c, g[1], g[2], w))
            IN /\ other.kind = "returned"
               /\ ~other.ret.isNil
               /\ IDValues(other.ret.list) = IDValues(calls[c].ret.list)

\* C5 as amended. Whitespace in front of the input is skipped before the
\* first match: the input and the input without the whitespace it starts
\* with give the same result, the same error kind or the same (ID, Value)
\* pairs, with every Index moved by the length of that whitespace.
C5_LeadingWhitespaceIgnored ==
    \A c \in Calls :
      (Returned(c) /\ calls[c].ret.err.kind # "InputError") =>
        LET input == calls[c].b.buffer
            n == Len(input) - Len(Strip(input))
            other == LexOf(lexer, Strip(input))
            ret == calls[c].ret
        IN /\ other.kind = "returned"
           /\ ret.isNil = other.ret.isNil
           /\ ret.list = Shifted(other.ret.list, n)
           /\ ret.err.kind = other.ret.err.kind
           /\ ret.err.kind = "MatchError" =>
                ret.err.Index = other.ret.err.Index + n

\* Lex returned a token for an input that starts with whitespace.
C5_Witness ==
    \E c \in Calls :
      /\ Returned(c) /\ ~calls[c].ret.isNil
      /\ calls[c].ret.list # <<>>
      /\ Strip(calls[c].b.buffer) # calls[c].b.buffer

\* The offsets of the input of call c that a token of list covers.
Covered(list) ==
    UNION {(list[k].Index)..(list[k].Index + Len(list[k].Value) - 1) :
             k \in DOMAIN list}

Newlines(c) ==
    {p \in 0..(Len(calls[c].b.buffer) - 1) : calls[c].b.buffer[p + 1] = "\n"}

\* C6 as claimed. Newline duality: without an entry "\n" no newline of the
\* input is in a token; with one, every newline of the input is a token of
\* its own whose ID is the index of an entry "\n".
C6_NewlineDuality ==
    \A c \in Calls :
      (Returned(c) /\ ~calls[c].ret.isNil) =>
        LET list == calls[c].ret.list
        IN IF ~HasNewlineEntry
           THEN Newlines(c) \cap Covered(list) = {}
           ELSE \A p \in Newlines(c) :
                  \E k \in DOMAIN list :
                    /\ list[k].Index = p
                    /\ list[k].Value = <<"\n">>
                    /\ lexer.lexemes[list[k].ID + 1] = <<"\n">>

\* C6 as amended. Without an entry "\n" a newline at the cursor is skipped:
\* no token starts at a newline (a pattern that embeds one can still match it
\* inside a token).  With an entry "\n" no newline is skipped: every newline
\* of the input of a Lex that returns a list is in a token, and a newline at
\* the cursor where only the entries "\n" match it, or where nothing matches
\* longer than one byte and the first pattern that matches is an entry "\n",
\* is a token "\n" of its own with that entry's index as ID.  In both cases
\* no token starts at another whitespace character.
C6_NewlineSkippedOrToken ==
    \A c \in Calls :
      /\ JustEmitted(c) =>
           LET t == LastToken(c)
           IN /\ calls[c].b.buffer[t.Index + 1] # " "
              /\ ~HasNewlineEntry => calls[c].b.buffer[t.Index + 1] # "\n"
      /\ (Returned(c) /\ ~calls[c].ret.isNil /\ HasNewlineEntry) =>
           Newlines(c) \subseteq Covered(calls[c].ret.list)
      /\ (JustEmitted(c) /\ HasNewlineEntry /\ AllWellFormed(lexer.lexemes)
            /\ calls[c].b.buffer[LastToken(c).Index + 1] = "\n") =>
           LET t == LastToken(c)
               lens == LensAt(c, t.Index)
               first == Min(PatternsMatching(c, t.Index, 1))
           IN (Max(lens) = 1 /\ lexer.lexemes[first + 1] = <<"\n">>) =>
                t = Token(first, <<"\n">>, t.Index)

\* With an entry "\n" that is not the first of the list, Lex returned a list
\* for an input of a space and a newline: the newline is a token.
C6_Witness ==
    \E c \in Calls :
      /\ Returned(c) /\ ~calls[c].ret.isNil
      /\ HasNewlineEntry /\ lexer.lexemes[1] # <<"\n">>
      /\ \E p \in Newlines(c) : p > 0 /\ calls[c].b.buffer[p] = " "
      /\ \E k \in DOMAIN calls[c].ret.list :
           calls[c].ret.list[k].Value = <<"\n">>

----------------------------------------------------------------------------
\* The order the tokens are claimed to have: by Value, then ID, then Index.
LexicographicLess(a, b) ==
    \/ StringLess(a.Value, b.Value)
    \/ a.Value = b.Value /\ a.ID < b.ID
    \/ a.Value = b.Value /\ a.ID = b.ID /\ a.Index < b.Index

\* C10. Token ordering: Token.Less is the lexicographic order by Value, ID,
\* Index; TokenList.Less agrees with it; a.Less(b) and b.Less(a) are never
\* both true.
C10_LessIsLexicographic ==
    lessPc = "done" =>
      /\ lessRes.tLess = LexicographicLess(tokA, tokB)
      /\ lessRes.lLess = lessRes.tLess
      /\ ~(lessRes.tLess /\ lessRes.tLessRev)

----------------------------------------------------------------------------
\* What call c returns when it runs alone on its input.
Alone(c) == LexOf(lexer, calls[c].b.buffer)

\* What call c comes to when it runs on alone from where it is.
FromHere(c) == LexLoop(lexer, calls[c].b, calls[c].list)

\* Call c read its input.
ReadInput(c) ==
    /\ calls[c].pc \in {"skip", "match", "returned", "panicked"}
    /\ calls[c].ret.err.kind # "InputError"

\* Wherever the interleaving has brought call c, the call ends as it ends
\* alone: it returns what it returns alone, panics or loops as it does alone.
SameAsAlone(c) ==
    ReadInput(c) =>
      CASE calls[c].pc = "returned" ->
             Alone(c) = [kind |-> "returned", ret |-> calls[c].ret]
        [] calls[c].pc = "panicked" -> Alone(c).kind = "panicked"
        [] OTHER -> FromHere(c) = Alone(c)

\* A step of Lex writes no field of the Lexer, and a step of one call leaves
\* the buffer, the cursor, the list and the return values of the others.
LexWritesOwnState ==
    /\ newPc = "returned" => lexer' = lexer
    /\ \A c, d \in Calls : (calls'[c] # calls[c] /\ d # c) => calls'[d] = calls[d]

\* C11. Independent concurrent Lex calls: Lex never writes a field of the
\* Lexer, each call works on its own buffer, cursor and list, and under every
\* interleaving of the steps of two calls each call returns what it returns
\* when it runs alone on its input.
C11_CallsIndependent ==
    /\ [](\A c \in Calls : SameAsAlone(c))
    /\ [][LexWritesOwnState]_vars

\* Both calls are in their loops at once, on different inputs and at
\* different cursors, each with a token in its list.
C11_Witness ==
    /\ \A c \in Calls : calls[c].pc \in {"skip", "match"} /\ calls[c].list # <<>>
    /\ calls["c1"].b.buffer # calls["c2"].b.buffer
    /\ calls["c1"].b.index # calls["c2"].b.index

----------------------------------------------------------------------------
\* C12. Pattern attribution: for every list New accepts, whenever the
\* combined expression matches at the cursor, getNextToken returns a token
\* whose ID is the index of a declared pattern; it never panics.
C12_MatchIsAttributed ==
    \A c \in Calls :
      /\ calls[c].pc # "panicked"
      /\ AtCursor(c) =>
           LET result == FindAllSubmatchIndex(lexer.regexps, next(calls[c].b))
               r == getNextToken(lexer, calls[c].b)
           IN result.found =>
                /\ r.kind = "token"
                /\ r.token.ID \in 0..(Len(lexer.lexemes) - 1)

----------------------------------------------------------------------------
\* The tokens of call c that are empty: the matches it selected that had a
\* length of 0.
EmptyTokens(c) ==
    {k \in DOMAIN calls[c].list : calls[c].list[k].Value = <<>>}

\* Every match call c has selected so far had a length of at least 1.
ForwardProgress(c) == EmptyTokens(c) = {}

\* An iteration of the loop either selects a match, appends its token and
\* moves the cursor by the length of the match, inside the input, or returns
\* a MatchError.  With matches of a length of at least 1 the distance from
\* the cursor to the end of the input decreases with every iteration, and
\* the loop ends.
LoopAdvances(c) ==
    AtCursor(c) =>
      LET r == getNextToken(lexer, calls[c].b)
      IN IF r.kind = "token"
         THEN /\ r.b.index = calls[c].b.index + Len(r.token.Value)
              /\ r.b.index <= Len(calls[c].b.buffer)
         ELSE /\ r.kind = "error"
              /\ r.err.kind = "MatchError"

\* A call with forward progress has at most len(input) tokens, has not
\* panicked, and has returned either its list, at the end of the input, or
\* an error.
ProgressEnds(c) ==
    ForwardProgress(c) =>
      /\ Len(calls[c].list) <= Len(calls[c].b.buffer)
      /\ calls[c].pc # "panicked"
      /\ (Returned(c) /\ calls[c].ret.err = NoError) =>
           (endOfInput(calls[c].b) /\ calls[c].ret = ReturnList(calls[c].list))
      /\ (Returned(c) /\ calls[c].ret.err # NoError) =>
           calls[c].ret.err.kind \in {"MatchError", "InputError"}

\* A call that has selected an empty match is at the cursor of that match,
\* has not ended, and selects the same match again.
EmptyMatchLoops(c) ==
    ~ForwardProgress(c) =>
      LET k == Min(EmptyTokens(c))
      IN /\ calls[c].pc \in {"skip", "match"}
         /\ calls[c].b.index = calls[c].list[k].Index
         /\ \A j \in k..Len(calls[c].list) : calls[c].list[j] = calls[c].list[k]
         /\ getNextToken(lexer, calls[c].b).kind = "token"
         /\ getNextToken(lexer, calls[c].b).token = calls[c].list[k]

\* C13. Termination under forward progress: a call whose selected matches all
\* have a length of at least 1 moves its cursor forward with every token,
\* emits at most len(input) tokens and ends with the list at the end of the
\* input or with a MatchError; a call that selects an empty match stays at
\* its cursor and never ends.
C13_TerminatesUnderProgress ==
    \A c \in Calls :
      /\ LoopAdvances(c)
      /\ ProgressEnds(c)
      /\ EmptyMatchLoops(c)

----------------------------------------------------------------------------
\* The cursor of call c is inside its buffer or at its end, and endOfInput
\* holds exactly at the end.
CursorInBuffer(c) ==
    LET b == calls[c].b
    IN /\ 0 <= b.index
       /\ b.index <= Len(b.buffer)
       /\ endOfInput(b) <=> (b.index = Len(b.buffer))

\* A step of a call that has read its input leaves the bytes of the buffer
\* and does not move the cursor backwards.
CursorMovesForward(c) ==
    calls[c].pc # "idle" =>
      /\ calls'[c].b.buffer = calls[c].b.buffer
      /\ calls'[c].b.index >= calls[c].b.index

\* C14. Cursor invariant: in every state of a Lex call the index of the
\* buffer is between 0 and len(buffer), no step decreases it or changes the
\* bytes of the input, and endOfInput is true exactly when the index is
\* len(buffer).
C14_CursorInvariant ==
    /\ [](\A c \in Calls : CursorInBuffer(c))
    /\ [][\A c \in Calls : CursorMovesForward(c)]_vars

\* The cursor has been moved by skipWhitespace and then by a match: the call
\* has just appended a token that does not start the input and is not empty,
\* and the cursor is at the end of the input.
C14_Witness ==
    \E c \in Calls :
      /\ JustEmitted(c)
      /\ LastToken(c).Index > 0
      /\ calls[c].b.index > LastToken(c).Index
      /\ endOfInput(calls[c].b)

====
